---- MODULE Spec2Model ----
(***************************************************************************)
(* A model of f2's conflict-detection/resolution engine (validation.go)    *)
(* and of its apply / commit / undo pipeline (operation.go).               *)
(*                                                                         *)
(* File names and paths are sequences of one-character strings, so that    *)
(* the path functions, the "(N)" suffix handling and the length check are  *)
(* computed as the Go code computes them.  Go indices are 0-based; the     *)
(* model indexes op.matches from 1, so index i here is Go's i-1.           *)
(***************************************************************************)
EXTENDS Integers, Sequences, FiniteSets, TLC

\* ------------------------------------------------------------------------
\* Strings
\* ------------------------------------------------------------------------

\* the member of a set that has exactly one.  Only({e : x \in {v}}) is
\* LET x == v IN e, with v evaluated once however often e uses x; the model
\* writes it where a value that takes work to compute is used repeatedly.
Only(S) == CHOOSE x \in S : TRUE

Digits == <<"0", "1", "2", "3", "4", "5", "6", "7", "8", "9">>

UpperCase == <<"A", "B", "C", "D", "E", "F", "G", "H", "I", "J", "K", "L", "M",
               "N", "O", "P", "Q", "R", "S", "T", "U", "V", "W", "X", "Y", "Z">>

LowerCase == <<"a", "b", "c", "d", "e", "f", "g", "h", "i", "j", "k", "l", "m",
               "n", "o", "p", "q", "r", "s", "t", "u", "v", "w", "x", "y", "z">>

IsDigit(c) == \E k \in 1..Len(Digits) : Digits[k] = c

DigitValue(c) == (CHOOSE k \in 1..Len(Digits) : Digits[k] = c) - 1

\* unicode.ToLower on one ASCII character
ToLowerChar(c) ==
    IF \E k \in 1..Len(UpperCase) : UpperCase[k] = c
    THEN LowerCase[CHOOSE k \in 1..Len(UpperCase) : UpperCase[k] = c]
    ELSE c

ToLower(s) == Only({[k \in 1..Len(v) |-> ToLowerChar(v[k])] : v \in {s}})

\* strings.EqualFold: equality under simple case folding
EqualFold(s, t) == ToLower(s) = ToLower(t)

\* the larger of the members of a non-empty set of integers
SetMax(S) == CHOOSE m \in S : \A n \in S : n <= m

\* the positions of s that hold c
Positions(s, c) == Only({{k \in 1..Len(v) : v[k] = c} : v \in {s}})

\* strings.LastIndex for one character, 1-based; 0 when c does not occur
LastIndexOf(s, c) ==
    Only({IF hits = {} THEN 0 ELSE SetMax(hits) : hits \in {Positions(s, c)}})

\* strings.Contains for one character
ContainsChar(s, c) == Positions(s, c) # {}

\* strings.ReplaceAll(s, c, "")
RemoveChar(s, c) == SelectSeq(s, LAMBDA x : x # c)

\* strings.ReplaceAll(s, from, to) for single characters
ReplaceChar(s, from, to) ==
    Only({[k \in 1..Len(v) |-> IF v[k] = from THEN to ELSE v[k]] : v \in {s}})

\* strconv.Itoa for n >= 0
RECURSIVE Itoa(_)
Itoa(n) ==
    IF n < 10 THEN <<Digits[n + 1]>>
    ELSE Itoa(n \div 10) \o <<Digits[(n % 10) + 1]>>

\* the decimal value of a sequence of digits (what Sscanf's %d reads)
RECURSIVE Atoi(_)
Atoi(s) ==
    IF s = <<>> THEN 0
    ELSE Only({10 * Atoi(front) + DigitValue(s[Len(s)])
               : front \in {SubSeq(s, 1, Len(s) - 1)}})

\* ------------------------------------------------------------------------
\* Paths (package path/filepath, separator "/")
\* ------------------------------------------------------------------------

pathSeperator == "/"

\* strings.Split(s, "/"): the stretches of s between its separators
SplitPath(s) ==
    Only({LET Sep(j) == IF j = 0 THEN 0
                        ELSE IF j > Cardinality(seps) THEN Len(s) + 1
                        ELSE CHOOSE k \in seps : Cardinality({m \in seps : m <= k}) = j
          IN  [j \in 1..(Cardinality(seps) + 1) |-> SubSeq(s, Sep(j - 1) + 1, Sep(j) - 1)]
          : seps \in {Positions(s, pathSeperator)}})

\* strings.Join(segs, "/")
RECURSIVE JoinSegs(_)
JoinSegs(segs) ==
    IF segs = <<>> THEN <<>>
    ELSE IF Len(segs) = 1 THEN segs[1]
    ELSE segs[1] \o <<pathSeperator>> \o JoinSegs(Tail(segs))

IsElement(seg) == seg # <<>> /\ seg # <<".">>

DropEmptyAndDot(segs) == SelectSeq(segs, IsElement)

\* filepath.Clean on paths without ".." elements: empty and "." elements and
\* repeated separators are dropped, a rooted path stays rooted and the
\* empty path is ".".
Clean(p) ==
    Only({IF p # <<>> /\ p[1] = pathSeperator THEN <<pathSeperator>> \o JoinSegs(kept)
          ELSE IF kept = <<>> THEN <<".">>
          ELSE JoinSegs(kept)
          : kept \in {DropEmptyAndDot(SplitPath(p))}})

\* filepath.Join(a, b): empty elements are ignored, the result is cleaned
Join(a, b) ==
    IF a = <<>> /\ b = <<>> THEN <<>>
    ELSE IF a = <<>> THEN Clean(b)
    ELSE IF b = <<>> THEN Clean(a)
    ELSE Only({Clean(p) : p \in {a \o <<pathSeperator>> \o b}})

\* a path with its trailing separators removed
StripTrailingSeparators(p) ==
    Only({IF Cardinality(seps) = Len(p) THEN <<>>
          ELSE SubSeq(p, 1, SetMax((1..Len(p)) \ seps))
          : seps \in {Positions(p, pathSeperator)}})

\* filepath.Base: the last element of the path; "." for the empty path
Base(p) ==
    IF p = <<>> THEN <<".">>
    ELSE Only({Only({IF last = <<>> THEN <<pathSeperator>> ELSE last
                     : last \in {SubSeq(q, LastIndexOf(q, pathSeperator) + 1, Len(q))}})
               : q \in {StripTrailingSeparators(p)}})

\* filepath.Dir: all but the last element of the path, cleaned
Dir(p) ==
    Only({IF cut = 0 THEN <<".">>
          ELSE Only({Clean(front) : front \in {SubSeq(p, 1, cut - 1)}})
          : cut \in {LastIndexOf(p, pathSeperator)}})

\* filepath.Ext: the suffix beginning at the final dot in the final element
Ext(p) ==
    Only({IF dot = 0 \/ dot < LastIndexOf(p, pathSeperator) THEN <<>>
          ELSE SubSeq(p, dot, Len(p))
          : dot \in {LastIndexOf(p, ".")}})

\* utils.FilenameWithoutExtension: the file name with filepath.Ext trimmed
FilenameWithoutExtension(f) ==
    Only({SubSeq(name, 1, Len(name) - Len(Ext(name))) : name \in {f}})

\* ------------------------------------------------------------------------
\* Program constants and vocabulary
\* ------------------------------------------------------------------------

Windows == "windows"
Darwin  == "darwin"
Linux   == "linux"

\* max filename length of 255 bytes on Linux and other unix-based OSes
unixMaxBytes == 255

statusOK                     == "ok"
statusUnchanged              == "unchanged"
statusOverwriting            == "overwriting"
statusEmptyFilename          == "empty filename"
statusTrailingPeriod         == "trailing periods are prohibited"
statusPathExists             == "path already exists"
statusOverwritingNewPath     == "overwriting newly renamed path"
statusInvalidCharacters      == "invalid characters present: (%s)"
statusFilenameLengthExceeded == "max file name length exceeded: (%s)"

emptyFilename             == "emptyFilename"
fileExists                == "fileExists"
overwritingNewPath        == "overwritingNewPath"
maxFilenameLengthExceeded == "maxFilenameLengthExceeded"
invalidCharacters         == "invalidCharacters"
trailingPeriod            == "trailingPeriod"

ConflictType == {emptyFilename, fileExists, overwritingNewPath,
                 maxFilenameLengthExceeded, invalidCharacters, trailingPeriod}

\* the values apply(), commit() and undo() return
errNil              == "nil"
errConflictDetected == "errConflictDetected"
errBackupNotFound   == "errBackupNotFound"
errSomeNotRenamed   == "Some files could not be renamed."
errSomeNotReverted  == "Some files could not be reverted."
errAboveNotRenamed  == "The above files could not be renamed"
errBackupFailed     == "the error backup() returned"
errRenamingFailed   == "The renaming operation failed due to the above errors"
errUnmarshal        == "the error json.Unmarshal returned"

\* ------------------------------------------------------------------------
\* Bounds of the model
\* ------------------------------------------------------------------------

\* invocations of the program (forward runs and undo runs) in one behaviour
MaxRuns == 2

\* entries of op.conflicts that are recorded (the list saturates there)
MaxConflicts == 8

\* ------------------------------------------------------------------------
\* State
\* ------------------------------------------------------------------------

VARIABLES
    goos,             \* runtime.GOOS
    foldFS,           \* TRUE when the filesystem matches names ignoring case
    fs,               \* the files: a function from path to file identity
    dirs,             \* the directories that exist
    backups,          \* the backup records: a function from file name to record
    workingDir,       \* op.workingDir
    matches,          \* op.matches
    conflicts,        \* op.conflicts
    errors,           \* op.errors
    exec,             \* op.exec
    fixConflicts,     \* op.fixConflicts
    allowOverwrites,  \* op.allowOverwrites
    revert,           \* op.revert
    includeDir,       \* op.includeDir
    pc,               \* where the invocation stands
    i,                \* the loop index of detectConflicts() and of rename()
    renamedPaths,     \* detectConflicts' map from target path to its claimants
    result,           \* the error value the invocation returned
    runs,             \* invocations started so far
    hist,             \* per invocation: its flags, input and the disk before it
    fsLog,            \* the filesystem calls the current invocation made
    gens              \* the newTarget calls of the last detection step

vars == <<goos, foldFS, fs, dirs, backups, workingDir, matches, conflicts, errors,
          exec, fixConflicts, allowOverwrites, revert, includeDir, pc, i,
          renamedPaths, result, runs, hist, fsLog, gens>>

envVars  == <<goos, foldFS, workingDir>>
diskVars == <<fs, dirs, backups>>
flagVars == <<exec, fixConflicts, allowOverwrites, revert, includeDir>>

\* ------------------------------------------------------------------------
\* The filesystem
\* ------------------------------------------------------------------------

\* the name under which the filesystem looks a path up
FsKey(p) == IF foldFS THEN ToLower(p) ELSE p

\* the entries of the disk that path p denotes
FilesAt(p) == Only({{q \in DOMAIN fs : FsKey(q) = key} : key \in {FsKey(p)}})
DirsAt(p)  == Only({{q \in dirs : FsKey(q) = key} : key \in {FsKey(p)}})

\* os.Stat(p) returns a nil error; otherwise its error is that p does not
\* exist (the filesystem sets no limit of its own on the length of a name)
Stat(p) == FilesAt(p) # {} \/ DirsAt(p) # {}

\* a function without the arguments in S
Without(f, S) == [q \in DOMAIN f \ S |-> f[q]]

\* the files after a successful os.Rename(source, target): the entry of source
\* takes the name target, replacing the file that target denoted
RenameFile(source, target) ==
    LET id == fs[CHOOSE q \in FilesAt(source) : TRUE]
    IN  (target :> id) @@ Without(fs, FilesAt(source) \cup FilesAt(target))

\* os.MkdirAll(d) can succeed: no file is in the way
CanMkdirAll(d) == FilesAt(d) = {}

\* the directories after a successful os.MkdirAll(d), for d one level below
\* a directory that exists
MkdirAll(d) == IF DirsAt(d) # {} THEN dirs ELSE dirs \cup {d}

\* ------------------------------------------------------------------------
\* Changes and conflicts
\* ------------------------------------------------------------------------

\* type Change struct
Change(baseDir, source, target) ==
    [BaseDir |-> baseDir, Source |-> source, Target |-> target,
     originalSource |-> source, status |-> "", Error |-> "",
     IsDir |-> FALSE, WillOverwrite |-> FALSE]

\* type Conflict struct
Conflict(sources, target, cause) ==
    [Sources |-> sources, Target |-> target, Cause |-> cause]

SourcePath(ch) == Join(ch.BaseDir, ch.Source)
TargetPath(ch) == Join(ch.BaseDir, ch.Target)

\* make(map[ConflictType][]Conflict)
NoConflicts == [t \in ConflictType |-> <<>>]

\* len(op.conflicts): the conflict types that have an entry
LenConflicts(cf) == Cardinality({t \in ConflictType : cf[t] # <<>>})

TotalConflicts(cf) ==
    Len(cf[emptyFilename]) + Len(cf[fileExists]) + Len(cf[overwritingNewPath])
    + Len(cf[maxFilenameLengthExceeded]) + Len(cf[invalidCharacters])
    + Len(cf[trailingPeriod])

\* op.conflicts[t] = append(op.conflicts[t], c)
AppendConflict(cf, t, c) ==
    IF TotalConflicts(cf) < MaxConflicts
    THEN [cf EXCEPT ![t] = Append(@, c)]
    ELSE cf

\* ------------------------------------------------------------------------
\* newTarget
\* ------------------------------------------------------------------------

\* where the regular expression \(\d+\)$ matches in s: the position of the
\* opening parenthesis, 0 when there is no match
NumberSuffixAt(s) ==
    Only({LET hits == {k \in 1..Len(v) :
                          /\ v[k] = "("
                          /\ v[Len(v)] = ")"
                          /\ k + 1 < Len(v)
                          /\ \A m \in (k + 1)..(Len(v) - 1) : IsDigit(v[m])}
          IN  IF hits = {} THEN 0 ELSE CHOOSE k \in hits : TRUE
          : v \in {s}})

\* regex.ReplaceAllString(s, "(" + strconv.Itoa(num) + ")")
ReplaceNumberSuffix(s, num) ==
    Only({IF at = 0 THEN s
          ELSE SubSeq(s, 1, at - 1) \o <<"(">> \o Itoa(num) \o <<")">>
          : at \in {NumberSuffixAt(s)}})

\* the counter a call of newTarget starts its loop with
NewTargetStart(target) ==
    Only({Only({IF at > 0
                THEN Atoi(SubSeq(fileNoExt, at + 1, Len(fileNoExt) - 1)) + 1
                ELSE 2
                : at \in {NumberSuffixAt(fileNoExt)}})
          : fileNoExt \in {FilenameWithoutExtension(Base(target))}})

\* the file name without extension that newTarget's loop works on
NumberedFileNoExt(target) ==
    Only({IF NumberSuffixAt(fileNoExt) > 0
          THEN fileNoExt
          ELSE fileNoExt \o <<" ", "(">> \o Itoa(2) \o <<")">>
          : fileNoExt \in {FilenameWithoutExtension(Base(target))}})

\* the target newTarget's loop renders for counter num
NewTargetCandidate(target, num) ==
    Only({Join(Dir(target), name)
          : name \in {Only({ReplaceNumberSuffix(fileNoExt, num) \o Ext(target)
                            : fileNoExt \in {NumberedFileNoExt(target)}})}})

\* newTarget without its loop: the target for the first counter, free or not
NewTargetUnchecked(ch, keys, num) == NewTargetCandidate(ch.Target, num)

\* the loop of newTarget: the first counter from num on whose path neither
\* exists on the filesystem nor is a key of renamedPaths
RECURSIVE NewTargetLoop(_, _, _)
NewTargetLoop(ch, keys, num) ==
    Only({Only({IF ~Stat(targetPath) /\ targetPath \notin keys
                THEN target
                ELSE NewTargetLoop(ch, keys, num + 1)
                : targetPath \in {Join(ch.BaseDir, target)}})
          : target \in {NewTargetCandidate(ch.Target, num)}})

\* newTarget(ch, renamedPaths); keys are the keys of renamedPaths, {} for nil
newTarget(ch, keys) == NewTargetLoop(ch, keys, NewTargetStart(ch.Target))

\* ------------------------------------------------------------------------
\* The per-item checks of detectConflicts.  Each takes and returns the
\* record st = [matches, conflicts, gens, panic] it works on and says
\* whether it detected a conflict.  The length check and the
\* forbidden-characters check are those of the platforms other than Windows.
\* ------------------------------------------------------------------------

Outcome(st, detected) == [st |-> st, detected |-> detected]

SetStatus(st, n, status) == [st EXCEPT !.matches[n].status = status]

\* an assignment of the new name to the source as well as to the target
SetTargetAndSource(st, n, target) ==
    [st EXCEPT !.matches[n].Target = target, !.matches[n].Source = target]

SetTarget(st, n, target) == [st EXCEPT !.matches[n].Target = target]

Report(st, t, sourcePath, targetPath, cause) ==
    [st EXCEPT !.conflicts =
        AppendConflict(@, t, Conflict(<<sourcePath>>, targetPath, cause))]

\* strings.TrimRight(v, ".")
TrimRightPeriods(v) ==
    LET kept == {k \in 1..Len(v) : v[k] # "."}
    IN  IF kept = {} THEN <<>> ELSE SubSeq(v, 1, SetMax(kept))

checkTrailingPeriodConflict(st, sourcePath, target, targetPath, n) ==
    IF goos # Windows THEN Outcome(st, FALSE)
    ELSE
        Only({LET detected == \E k \in 1..Len(strSlice) :
                                  TrimRightPeriods(strSlice[k]) # strSlice[k]
                  trimmed  == [k \in 1..Len(strSlice) |-> TrimRightPeriods(strSlice[k])]
                  st1      == SetStatus(Report(st, trailingPeriod, sourcePath,
                                               targetPath, ""),
                                        n, statusTrailingPeriod)
              IN  IF ~detected THEN Outcome(st, FALSE)
                  ELSE IF fixConflicts
                  THEN Outcome(SetStatus(SetTarget(st1, n, JoinSegs(trimmed)), n, statusOK),
                               TRUE)
                  ELSE Outcome(st1, TRUE)
              : strSlice \in {SplitPath(target)}})

\* checktTargetLength: the error text, "" for nil (platforms other than Windows)
checktTargetLength(target) ==
    IF Len(Base(target)) > unixMaxBytes THEN "255 bytes" ELSE ""

\* the loop of checkPathLengthConflict that drops the last character of
\* fileNoExt until it is no longer than index
RECURSIVE TruncateTo(_, _)
TruncateTo(fileNoExt, index) ==
    IF Len(fileNoExt) > index /\ fileNoExt # <<>>
    THEN Only({TruncateTo(shorter, index) :
               shorter \in {SubSeq(fileNoExt, 1, Len(fileNoExt) - 1)}})
    ELSE fileNoExt

\* that loop slices frune[:len(frune)-1] with frune empty, which panics, when
\* the extension alone is longer than the limit
TruncatePanics(fileNoExt, index) == index < 0

checkPathLengthConflict(st, sourcePath, target, targetPath, n) ==
    Only({IF err = "" THEN Outcome(st, FALSE)
          ELSE
            Only({LET st1   == SetStatus(Report(st, maxFilenameLengthExceeded,
                                                sourcePath, targetPath, err),
                                         n, statusFilenameLengthExceeded)
                      index == unixMaxBytes - Len(ext)
                  IN  IF fixConflicts /\ TruncatePanics(fileNoExt, index)
                      THEN Outcome([st1 EXCEPT !.panic = TRUE], TRUE)
                      ELSE IF fixConflicts
                      THEN Outcome(SetStatus(SetTarget(st1, n,
                                                       TruncateTo(fileNoExt, index) \o ext),
                                             n, statusOK), TRUE)
                      ELSE Outcome(st1, TRUE)
                  : ext \in {Ext(Base(target))},
                    fileNoExt \in {FilenameWithoutExtension(Base(target))}})
          : err \in {checktTargetLength(target)}})

\* checkForbiddenCharacters: the error text, "" for nil
checkForbiddenCharacters(path) ==
    IF goos = Darwin /\ ContainsChar(path, ":") THEN ":" ELSE ""

checkForbiddenCharactersConflict(st, sourcePath, target, targetPath, n) ==
    LET err == checkForbiddenCharacters(target)
        st1 == SetStatus(Report(st, invalidCharacters, sourcePath, targetPath, err),
                         n, statusInvalidCharacters)
    IN  IF err = "" THEN Outcome(st, FALSE)
        ELSE IF fixConflicts
        THEN Outcome(SetStatus(IF goos = Darwin
                               THEN SetTarget(st1, n, RemoveChar(target, ":"))
                               ELSE st1,
                               n, statusOK), TRUE)
        ELSE Outcome(st1, TRUE)

\* that loop without its comparison of the indices
VacatedByAny(ms, targetPath, n) ==
    \E j \in 1..Len(ms) :
        /\ targetPath = SourcePath(ms[j])
        /\ ~EqualFold(SourcePath(ms[j]), TargetPath(ms[j]))

\* the loop of checkPathExistsConflict over op.matches: an earlier change
\* whose source is this target path and which changes its name
VacatedByEarlier(ms, targetPath, n) ==
    \E j \in 1..Len(ms) :
        /\ targetPath = SourcePath(ms[j])
        /\ ~EqualFold(SourcePath(ms[j]), TargetPath(ms[j]))
        /\ n > j

\* a call newTarget made: the change it was for, the path it returned and
\* the target paths that were claimed in renamedPaths at the time
Gen(n, path, claimed) == [index |-> n, path |-> path, claimed |-> claimed]

checkPathExistsConflict(st, sourcePath, targetPath, ch, n) ==
    IF ~Stat(targetPath) THEN Outcome(st, FALSE)
    ELSE IF EqualFold(sourcePath, targetPath)
    THEN Outcome(SetStatus(st, n, statusUnchanged), FALSE)
    ELSE IF allowOverwrites
    THEN Outcome(SetStatus([st EXCEPT !.matches[n].WillOverwrite = TRUE],
                           n, statusOverwriting), FALSE)
    ELSE IF VacatedByEarlier(st.matches, targetPath, n)
    THEN Outcome(st, FALSE)
    ELSE
        LET st1 == SetStatus(Report(st, fileExists, sourcePath, targetPath, ""),
                             n, statusPathExists)
        IN  IF fixConflicts
            THEN Only({Outcome([SetStatus(SetTarget(st1, n, target), n, statusOK)
                                 EXCEPT !.gens = Append(@, Gen(n, Join(ch.BaseDir, target),
                                                               DOMAIN renamedPaths))],
                               TRUE)
                       : target \in {newTarget(ch, {})}})
            ELSE Outcome(st1, TRUE)

\* ------------------------------------------------------------------------
\* detectConflicts
\* ------------------------------------------------------------------------

\* what one iteration of the loop of detectConflicts does for index n: the
\* new st, whether the loop moves on to n + 1 (FALSE when the index is
\* decremented for a recheck) and whether the target path is entered in
\* renamedPaths
Iteration(st, advance, register) ==
    [st |-> st, advance |-> advance, register |-> register]

\* the iteration from the path-exists check on
FromPathExists(st, ch, sourcePath, targetPath, n) ==
    Only({IF r.detected /\ fixConflicts
          THEN Iteration(r.st, FALSE, FALSE)
          ELSE Iteration(r.st, TRUE, TRUE)
          : r \in {checkPathExistsConflict(st, sourcePath, targetPath, ch, n)}})

\* the iteration from the forbidden-characters check on
FromForbiddenCharacters(st, ch, sourcePath, targetPath, n) ==
    Only({IF r.detected /\ fixConflicts
          THEN Iteration(r.st, FALSE, FALSE)
          ELSE FromPathExists(r.st, ch, sourcePath, targetPath, n)
          : r \in {checkForbiddenCharactersConflict(st, sourcePath, ch.Target,
                                                    targetPath, n)}})

\* the iteration from the length check on
FromPathLength(st, ch, sourcePath, targetPath, n) ==
    Only({IF r.detected /\ fixConflicts
          THEN Iteration(r.st, FALSE, FALSE)
          ELSE FromForbiddenCharacters(r.st, ch, sourcePath, targetPath, n)
          : r \in {checkPathLengthConflict(st, sourcePath, ch.Target, targetPath, n)}})

\* the iteration from the trailing-period check on
FromTrailingPeriod(st, ch, sourcePath, targetPath, n) ==
    Only({IF r.detected /\ fixConflicts
          THEN Iteration(r.st, FALSE, FALSE)
          ELSE FromPathLength(r.st, ch, sourcePath, targetPath, n)
          : r \in {checkTrailingPeriodConflict(st, sourcePath, ch.Target, targetPath, n)}})

\* that iteration when auto-fix sends the change through the checks again
EmptyTargetRechecked(st, ch, sourcePath, targetPath, n) ==
    LET empty == SetStatus(Report(st, emptyFilename, sourcePath, targetPath, ""),
                           n, statusEmptyFilename)
    IN  IF fixConflicts
        THEN Iteration(SetStatus(SetTarget(empty, n, ch.Source), n, statusUnchanged),
                       FALSE, FALSE)
        ELSE Iteration(empty, TRUE, FALSE)

\* the iteration for an empty target: the change is reported and, with
\* auto-fix, left unchanged; the loop continues without entering its target
\* path in renamedPaths
EmptyTarget(st, ch, sourcePath, targetPath, n) ==
    LET empty == SetStatus(Report(st, emptyFilename, sourcePath, targetPath, ""),
                           n, statusEmptyFilename)
    IN  IF fixConflicts
        THEN Iteration(SetStatus(SetTarget(empty, n, ch.Source), n, statusUnchanged),
                       TRUE, FALSE)
        ELSE Iteration(empty, TRUE, FALSE)

\* the body of the loop of detectConflicts for index n
DetectItem(st, n) ==
    Only({Only({IF ch.Target = <<".">> \/ ch.Target = <<>>
                THEN EmptyTarget(st, ch, sourcePath, targetPath, n)
                ELSE FromTrailingPeriod(st, ch, sourcePath, targetPath, n)
                : sourcePath \in {SourcePath(ch)}, targetPath \in {TargetPath(ch)}})
          : ch \in {st.matches[n]}})

\* that statement with the new claimant put before the earlier ones
RegisterPrepending(rp, targetPath, sourcePath, n) ==
    LET entry == [sourcePath |-> sourcePath, index |-> n]
    IN  IF targetPath \in DOMAIN rp
        THEN [rp EXCEPT ![targetPath] = <<entry>> \o @]
        ELSE (targetPath :> <<entry>>) @@ rp

\* renamedPaths[targetPath] = append(renamedPaths[targetPath], {sourcePath, index})
Register(rp, targetPath, sourcePath, n) ==
    LET entry == [sourcePath |-> sourcePath, index |-> n]
    IN  IF targetPath \in DOMAIN rp
        THEN [rp EXCEPT ![targetPath] = Append(@, entry)]
        ELSE (targetPath :> <<entry>>) @@ rp

\* that loop body without the entry of the new path in renamedPaths
FixContributorUnentered(st, rp, n) ==
    Only({[st |-> [SetStatus(SetTarget(st, n, target), n, statusOK)
                     EXCEPT !.gens = Append(@, Gen(n, Join(st.matches[n].BaseDir, target),
                                                   DOMAIN rp))],
           rp |-> rp]
          : target \in {newTarget(st.matches[n], DOMAIN rp)}})

\* the body of the loop "for i := 0; i < len(source); i++" of
\* checkOverwritingPathConflict for one contributor after the first
RECURSIVE FixContributor(_, _, _)
FixContributor(st, rp, n) ==
    Only({LET pt  == Join(st.matches[n].BaseDir, target)
              st1 == [SetStatus(SetTarget(st, n, target), n, statusOK)
                       EXCEPT !.gens = Append(@, Gen(n, pt, DOMAIN rp))]
          IN  IF pt \notin DOMAIN rp
              THEN [st |-> st1, rp |-> (pt :> <<>>) @@ rp]
              ELSE Only({FixContributor(again, rp, n) : again \in {st1}})
          : target \in {newTarget(st.matches[n], DOMAIN rp)}})

RECURSIVE FixContributors(_, _, _, _)
FixContributors(st, rp, source, k) ==
    IF k > Len(source) THEN [st |-> st, rp |-> rp]
    ELSE Only({FixContributors(r.st, r.rp, source, k + 1)
               : r \in {FixContributor(st, rp, source[k].index)}})

\* op.matches[s.index].status = statusOverwritingNewPath for every s of source
MarkOverwriting(st, source) ==
    LET marked == {source[k].index : k \in 1..Len(source)}
    IN  [st EXCEPT !.matches =
            [k \in 1..Len(@) |->
                IF k \in marked THEN [@[k] EXCEPT !.status = statusOverwritingNewPath]
                ELSE @[k]]]

\* the body of the loop over renamedPaths for one target path
VisitTargetPath(st, rp, targetPath) ==
    LET source  == rp[targetPath]
        sources == [k \in 1..Len(source) |-> source[k].sourcePath]
    IN  IF Len(source) > 1
        THEN Only({IF fixConflicts
                   THEN FixContributors(st1, rp, source, 2)
                   ELSE [st |-> st1, rp |-> rp]
                   : st1 \in {[MarkOverwriting(st, source) EXCEPT !.conflicts =
                                 AppendConflict(@, overwritingNewPath,
                                                Conflict(sources, targetPath, ""))]}})
        ELSE [st |-> st, rp |-> rp]

\* checkOverwritingPathConflict when the map is ranged over in the given order
RECURSIVE VisitInOrder(_, _, _)
VisitInOrder(st, rp, order) ==
    IF order = <<>> THEN [st |-> st, rp |-> rp]
    ELSE Only({VisitInOrder(r.st, r.rp, Tail(order))
               : r \in {VisitTargetPath(st, rp, Head(order))}})

\* the target paths of renamedPaths that have more than one claimant: the
\* only ones whose visit has an effect
Contested(rp) == {p \in DOMAIN rp : Len(rp[p]) > 1}

\* the orders in which a range over a Go map may visit the members of S
Orders(S) == {o \in [1..Cardinality(S) -> S] : \A a, b \in DOMAIN o : a # b => o[a] # o[b]}

checkOverwritingPathConflict(st, rp, order) == VisitInOrder(st, rp, order)

\* ------------------------------------------------------------------------
\* Backup records
\* ------------------------------------------------------------------------

\* json.Marshal of a Change: the exported fields
ToJSON(ch) ==
    [base_dir |-> ch.BaseDir, source |-> ch.Source, target |-> ch.Target,
     error |-> ch.Error, is_dir |-> ch.IsDir, will_overwrite |-> ch.WillOverwrite]

\* json.Unmarshal into a Change: the unexported fields keep their zero value
FromJSON(j) ==
    [BaseDir |-> j.base_dir, Source |-> j.source, Target |-> j.target,
     originalSource |-> <<>>, status |-> "", Error |-> j.error,
     IsDir |-> j.is_dir, WillOverwrite |-> j.will_overwrite]

\* the file name backup() and retrieveBackupFile() derive from the working
\* directory
BackupFileName(wd) == ReplaceChar(wd, pathSeperator, "_") \o <<".", "j", "s", "o", "n">>

\* writeToFile: the record that holds the working directory and op.matches
BackupRecord(wd, ms) ==
    [working_dir |-> wd, operations |-> [k \in 1..Len(ms) |-> ToJSON(ms[k])],
     valid |-> TRUE]

\* the file os.Create left when the write after it failed: no JSON document
TruncatedRecord == [working_dir |-> <<>>, operations |-> <<>>, valid |-> FALSE]

\* the outcomes of backup(): the record is written; the file could not be
\* created; the file was created or truncated and the write failed
writeOK        == "written"
writeNoFile    == "not created"
writeTruncated == "truncated"
WriteOutcomes  == {writeOK, writeNoFile, writeTruncated}

\* backup() that leaves a record the directory already has in place
backupKeepsEarlier(wd, ms) == backups @@ (BackupFileName(wd) :> BackupRecord(wd, ms))

\* the backup records after backup()
backup(wd, ms) == (BackupFileName(wd) :> BackupRecord(wd, ms)) @@ backups

\* the backup records after a call of backup() with the given outcome
BackupsAfter(wd, ms, outcome) ==
    IF outcome = writeOK THEN backup(wd, ms)
    ELSE IF outcome = writeTruncated
    THEN (BackupFileName(wd) :> TruncatedRecord) @@ backups
    ELSE backups

\* undo: the operations of the record with source and target swapped
SwapSourceTarget(ch) == [ch EXCEPT !.Source = ch.Target, !.Target = ch.Source]

UndoMatches(bf) ==
    [k \in 1..Len(bf.operations) |-> SwapSourceTarget(FromJSON(bf.operations[k]))]

\* sortMatches orders the changes by kind and by the depth of their
\* directory; its sort is stable, and the changes of this model are files of
\* one directory, which it leaves in the order detection used
sortMatches(ms) == ms

\* ------------------------------------------------------------------------
\* The pipeline: run, apply, commit, undo
\* ------------------------------------------------------------------------

\* the entry of hist for an invocation that starts now
HistEntry(rev, ex, fix, allow, ms) ==
    [revert |-> rev, exec |-> ex, fixConflicts |-> fix, allowOverwrites |-> allow,
     input |-> ms, fs |-> fs, dirs |-> dirs, backups |-> backups, result |-> ""]

\* an undo that removes the backup file whatever apply() returned
FinishRemoving(res, bk) ==
    /\ pc' = "done"
    /\ result' = res
    /\ hist' = [hist EXCEPT ![runs].result = res]
    /\ backups' = IF revert THEN Without(bk, {BackupFileName(workingDir)}) ELSE bk

\* the invocation returns res.  An undo whose apply() returned nil removes
\* the backup file when exec is set; a failed removal is only a warning.
Finish(res, bk) ==
    /\ pc' = "done"
    /\ result' = res
    /\ hist' = [hist EXCEPT ![runs].result = res]
    /\ IF revert /\ res = errNil /\ exec
       THEN \E removed \in BOOLEAN :
                backups' = IF removed THEN Without(bk, {BackupFileName(workingDir)}) ELSE bk
       ELSE backups' = bk

\* run() without revert, from the changes the collaborators hand over, up to
\* the first lines of apply()
Run(batches, flags) ==
    /\ pc \in {"idle", "done"}
    /\ runs < MaxRuns
    /\ \E ms \in batches, f \in flags :
        /\ matches' = ms
        /\ exec' = f.exec
        /\ fixConflicts' = f.fixConflicts
        /\ allowOverwrites' = f.allowOverwrites
        /\ revert' = FALSE
        /\ includeDir' = FALSE
        /\ runs' = runs + 1
        /\ conflicts' = NoConflicts
        /\ errors' = <<>>
        /\ renamedPaths' = <<>>
        /\ i' = 1
        /\ fsLog' = <<>>
        /\ gens' = <<>>
        /\ IF ms = <<>>
           THEN /\ pc' = "done"
                /\ result' = errNil
                /\ hist' = Append(hist, [HistEntry(FALSE, f.exec, f.fixConflicts,
                                                   f.allowOverwrites, ms)
                                           EXCEPT !.result = errNil])
           ELSE /\ pc' = "detect"
                /\ result' = ""
                /\ hist' = Append(hist, HistEntry(FALSE, f.exec, f.fixConflicts,
                                                  f.allowOverwrites, ms))
    /\ UNCHANGED <<envVars, diskVars>>

\* run() with revert: retrieveBackupFile and undo() up to the first lines of
\* apply()
Undo(flags) ==
    /\ pc \in {"idle", "done"}
    /\ runs < MaxRuns
    /\ \E f \in flags :
        LET file  == BackupFileName(workingDir)
            found == file \in DOMAIN backups
            valid == found /\ backups[file].valid
            ms    == IF valid THEN UndoMatches(backups[file]) ELSE <<>>
            entry == HistEntry(TRUE, f.exec, f.fixConflicts, f.allowOverwrites, ms)
        IN  /\ matches' = ms
            /\ exec' = f.exec
            /\ fixConflicts' = f.fixConflicts
            /\ allowOverwrites' = f.allowOverwrites
            /\ revert' = TRUE
            /\ includeDir' = FALSE
            /\ runs' = runs + 1
            /\ conflicts' = NoConflicts
            /\ errors' = <<>>
            /\ renamedPaths' = <<>>
            /\ i' = 1
            /\ fsLog' = <<>>
            /\ gens' = <<>>
            /\ IF ~valid
               THEN /\ pc' = "done"
                    /\ result' = IF found THEN errUnmarshal ELSE errBackupNotFound
                    /\ hist' = Append(hist, [entry EXCEPT !.result =
                                     IF found THEN errUnmarshal ELSE errBackupNotFound])
               ELSE /\ pc' = "detect"
                    /\ result' = ""
                    /\ hist' = Append(hist, entry)
    /\ UNCHANGED <<envVars, diskVars>>

\* one iteration of the loop of detectConflicts
DetectStep ==
    /\ pc = "detect"
    /\ i <= Len(matches)
    /\ \E r \in {DetectItem([matches |-> matches, conflicts |-> conflicts,
                             gens |-> <<>>, panic |-> FALSE], i)} :
           /\ matches' = r.st.matches
           /\ conflicts' = r.st.conflicts
           /\ gens' = r.st.gens
           /\ renamedPaths' = IF r.register
                              THEN Only({Register(renamedPaths, targetPath, sourcePath, i)
                                         : targetPath \in {TargetPath(matches[i])},
                                           sourcePath \in {SourcePath(matches[i])}})
                              ELSE renamedPaths
           /\ IF r.st.panic
              THEN /\ pc' = "done"
                   /\ result' = "panic"
                   /\ hist' = [hist EXCEPT ![runs].result = "panic"]
                   /\ i' = i
              ELSE /\ pc' = pc
                   /\ result' = result
                   /\ hist' = hist
                   /\ i' = IF r.advance THEN i + 1 ELSE i
    /\ UNCHANGED <<envVars, diskVars, flagVars, errors, runs, fsLog>>

\* the call of checkOverwritingPathConflict that ends detectConflicts; the
\* range over the map visits the contested target paths in some order
DetectOverwriting ==
    /\ pc = "detect"
    /\ i > Len(matches)
    /\ \E order \in Orders(Contested(renamedPaths)) :
        \E r \in {checkOverwritingPathConflict(
                     [matches |-> matches, conflicts |-> conflicts,
                      gens |-> <<>>, panic |-> FALSE], renamedPaths, order)} :
            /\ matches' = r.st.matches
            /\ conflicts' = r.st.conflicts
            /\ gens' = r.st.gens
            /\ renamedPaths' = r.rp
    /\ pc' = "detected"
    /\ UNCHANGED <<envVars, diskVars, flagVars, errors, i, result, runs, hist, fsLog>>

\* the conflict test of apply() with the negation of fixConflicts lost
ConflictsIgnored == LenConflicts(conflicts) > 0 /\ fixConflicts

\* apply() finds conflicts that auto-fix did not take care of
ConflictsRemain == LenConflicts(conflicts) > 0 /\ ~fixConflicts

\* apply() that goes on to commit() whether or not exec is set
CommitsAlways == TRUE

\* apply() goes on to commit() rather than to dryRun()
Commits == exec

\* apply() after detectConflicts: the conflict abort, the sort, the dry run
ApplyDetected ==
    /\ pc = "detected"
    /\ IF ConflictsRemain
       THEN /\ Finish(errConflictDetected, backups)
            /\ UNCHANGED <<matches, i>>
       ELSE /\ matches' = IF includeDir \/ revert THEN sortMatches(matches) ELSE matches
            /\ IF Commits
               THEN /\ pc' = "rename"
                    /\ i' = 1
                    /\ UNCHANGED <<result, hist, backups>>
               ELSE /\ Finish(errNil, backups)
                    /\ i' = i
    /\ UNCHANGED <<envVars, fs, dirs, flagVars, conflicts, errors, renamedPaths, runs,
                   fsLog, gens>>

\* a filesystem call as fsLog records it
FsCall(call, n, source, target, ok, existed) ==
    [call |-> call, index |-> n, source |-> source, target |-> target, ok |-> ok,
     existed |-> existed]

\* one iteration of the loop of rename(): the mkdir and the rename of one
\* change.  A call fails when it cannot succeed, and may fail when it can.
RenameStep ==
    /\ pc = "rename"
    /\ i <= Len(matches)
    /\ \E ch \in {matches[i]} :
       \E source \in {SourcePath(ch)}, target \in {TargetPath(ch)},
          dir \in {Join(ch.BaseDir, Dir(ch.Target))},
          mkdir \in {ContainsChar(ch.Target, "/")} :
           IF source = target
           THEN UNCHANGED <<fs, dirs, matches, errors, fsLog>>
           ELSE \E mkOk \in (IF mkdir /\ CanMkdirAll(dir) THEN BOOLEAN ELSE {~mkdir}) :
                  IF mkdir /\ ~mkOk
                  THEN /\ errors' = Append(errors, i)
                       /\ matches' = [matches EXCEPT ![i].Error = "mkdir failed"]
                       /\ fsLog' = Append(fsLog, FsCall("mkdir", i, source, dir, FALSE, Stat(dir)))
                       /\ UNCHANGED <<fs, dirs>>
                  ELSE \E dirsNow \in {IF mkdir THEN MkdirAll(dir) ELSE dirs},
                          log \in {IF mkdir
                                   THEN Append(fsLog, FsCall("mkdir", i, source, dir, TRUE,
                                                             Stat(dir)))
                                   ELSE fsLog},
                          parent \in {FsKey(Dir(target))} :
                       \E can \in {/\ FilesAt(source) # {}
                                   /\ DirsAt(target) = {}
                                   /\ \E q \in dirsNow : FsKey(q) = parent} :
                       \E ok \in (IF can THEN BOOLEAN ELSE {FALSE}) :
                             /\ dirs' = dirsNow
                             /\ fsLog' = Append(log, FsCall("rename", i, source, target, ok,
                                                            Stat(target)))
                             /\ IF ok
                                THEN /\ fs' = RenameFile(source, target)
                                     /\ UNCHANGED <<matches, errors>>
                                ELSE /\ errors' = Append(errors, i)
                                     /\ matches' = [matches EXCEPT ![i].Error = "rename failed"]
                                     /\ fs' = fs
    /\ i' = i + 1
    /\ UNCHANGED <<envVars, backups, flagVars, conflicts, pc, renamedPaths, result, runs,
                   hist, gens>>

\* the backup test of handleErrors when it asks for no failure at all
BackupOnlyWithoutErrors == Len(errors) = 0 /\ ~revert

\* handleErrors calls backup()
BackupOnErrors == Len(matches) > Len(errors) /\ ~revert

\* handleErrors: the error commit() returns when some rename failed, and the
\* backup records it leaves; wrote is the outcome of the write of the backup
\* file, if handleErrors attempts one
handleErrors(wrote) ==
    LET failed == BackupOnErrors /\ wrote # writeOK
        msg    == IF revert THEN errSomeNotReverted ELSE errSomeNotRenamed
    IN  [backups |-> IF BackupOnErrors
                     THEN BackupsAfter(workingDir, matches, wrote)
                     ELSE backups,
         err     |-> IF ~failed /\ Len(matches) > 0 THEN msg
                     ELSE IF failed /\ Len(matches) > 0 THEN errAboveNotRenamed
                     ELSE errRenamingFailed]

\* commit() after rename(); the write of the backup file may fail
CommitStep ==
    /\ pc = "rename"
    /\ i > Len(matches)
    /\ IF Len(errors) > 0
       THEN \E wrote \in (IF BackupOnErrors THEN WriteOutcomes ELSE {writeOK}) :
                \E r \in {handleErrors(wrote)} : Finish(r.err, r.backups)
       ELSE IF ~revert
       THEN \E wrote \in WriteOutcomes :
                Finish(IF wrote = writeOK THEN errNil ELSE errBackupFailed,
                       BackupsAfter(workingDir, matches, wrote))
       ELSE Finish(errNil, backups)
    /\ UNCHANGED <<envVars, fs, dirs, flagVars, matches, conflicts, errors, i,
                   renamedPaths, runs, fsLog, gens>>

\* ------------------------------------------------------------------------
\* Inputs: the directory, the names and the batches of changes
\* ------------------------------------------------------------------------

\* changes in one batch
MaxChanges == 2

\* the directory the program runs in and whose files it renames
WorkDir == <<"/", "w">>

Paren(n) == <<" ", "(">> \o Itoa(n) \o <<")">>

\* the files of the directory before the first invocation
FilesABC == (Join(WorkDir, <<"a">>) :> "file a") @@
            (Join(WorkDir, <<"b">>) :> "file b") @@
            (Join(WorkDir, <<"c">>) :> "file c") @@
            (Join(WorkDir, <<"c">> \o Paren(3)) :> "file c (3)")

\* the files the find step may match: the first MaxChanges of these
SourcePool == <<<<"a">>, <<"b">>, <<"c">>>>

SourceNames == {SourcePool[k] : k \in 1..MaxChanges}

\* the targets the replacement may propose
TargetNames == {<<>>, <<"a">>, <<"c">>, <<"c">> \o Paren(2), <<"d", "/", "a">>}

\* the sequences of n distinct members of S
Arrangements(S, n) ==
    {o \in [1..n -> S] : \A a, b \in 1..n : a # b => o[a] # o[b]}

\* the batches of at most max changes of distinct files of directory d, the
\* files among sources and the targets among names
Batches(d, sources, names, max) ==
    UNION {
        UNION {
            {[k \in 1..n |-> Change(d, srcs[k], tgts[k])] : tgts \in [1..n -> names]}
            : srcs \in Arrangements(sources, n)}
        : n \in 0..max}

Flags == [exec : BOOLEAN, fixConflicts : BOOLEAN, allowOverwrites : BOOLEAN]

\* a forward run took place in this behaviour
ForwardRan == \E k \in 1..Len(hist) : ~hist[k].revert

\* ------------------------------------------------------------------------
\* Specification
\* ------------------------------------------------------------------------

InitWith(os, fold, files) ==
    /\ goos = os
    /\ foldFS = fold
    /\ fs = files
    /\ dirs = {WorkDir}
    /\ backups = <<>>
    /\ workingDir = WorkDir
    /\ matches = <<>>
    /\ conflicts = NoConflicts
    /\ errors = <<>>
    /\ exec = FALSE
    /\ fixConflicts = FALSE
    /\ allowOverwrites = FALSE
    /\ revert = FALSE
    /\ includeDir = FALSE
    /\ pc = "idle"
    /\ i = 1
    /\ renamedPaths = <<>>
    /\ result = ""
    /\ runs = 0
    /\ hist = <<>>
    /\ fsLog = <<>>
    /\ gens = <<>>

Init == InitWith(Linux, FALSE, FilesABC)

\* a forward run over a batch of the directory's files
RunBatch ==
    Run(IF ForwardRan THEN {} ELSE Batches(WorkDir, SourceNames, TargetNames, MaxChanges),
        Flags)

RunUndo == Undo(Flags)

Next ==
    \/ RunBatch
    \/ RunUndo
    \/ DetectStep
    \/ DetectOverwriting
    \/ ApplyDetected
    \/ RenameStep
    \/ CommitStep

Spec == Init /\ [][Next]_vars

\* ------------------------------------------------------------------------
\* Specification with a file whose name has the longest permitted length
\* ------------------------------------------------------------------------

\* a file name of unixMaxBytes bytes
LongName == [k \in 1..unixMaxBytes |-> "x"]

FilesLong == (Join(WorkDir, <<"a">>) :> "file a") @@
             (Join(WorkDir, <<"b">>) :> "file b") @@
             (Join(WorkDir, LongName) :> "file x")

LongSources == {<<"a">>}

LongTargets == {LongName, <<"c">>}

InitLong == InitWith(Linux, FALSE, FilesLong)

RunLong ==
    Run(IF ForwardRan THEN {} ELSE Batches(WorkDir, LongSources, LongTargets, MaxChanges),
        Flags)

NextLong ==
    \/ RunLong
    \/ RunUndo
    \/ DetectStep
    \/ DetectOverwriting
    \/ ApplyDetected
    \/ RenameStep
    \/ CommitStep

\* the program, once in detectConflicts, keeps taking the steps of its loop
SpecLong ==
    InitLong /\ [][NextLong]_vars /\ WF_vars(DetectStep) /\ WF_vars(DetectOverwriting)

\* ------------------------------------------------------------------------
\* Specification with targets whose file name is too long
\* ------------------------------------------------------------------------

\* a name of n bytes, all of them the character c
Repeat(c, n) == [k \in 1..n |-> c]

\* a file name one byte too long
TooLongName == Repeat("x", unixMaxBytes + 1)

\* the same in a directory that is created on the way
TooLongInDir == <<"d", "/">> \o TooLongName

\* a file name too long with a short extension
TooLongWithExt == Repeat("x", unixMaxBytes) \o <<".", "t">>

\* a file name whose extension alone is too long
TooLongExt == <<"x", ".">> \o Repeat("y", unixMaxBytes + 1)

LengthTargets == {TooLongName, TooLongInDir, TooLongWithExt, TooLongExt, <<"c">>}

RunLength ==
    Run(IF ForwardRan THEN {} ELSE Batches(WorkDir, LongSources, LengthTargets, MaxChanges),
        Flags)

NextLength ==
    \/ RunLength
    \/ RunUndo
    \/ DetectStep
    \/ DetectOverwriting
    \/ ApplyDetected
    \/ RenameStep
    \/ CommitStep

SpecLength == Init /\ [][NextLength]_vars

\* ------------------------------------------------------------------------
\* Specification with names that differ in case only
\* ------------------------------------------------------------------------

\* the files of a directory on a filesystem that tells a from A
FilesCase == (Join(WorkDir, <<"a">>) :> "file a") @@
             (Join(WorkDir, <<"A">>) :> "file A") @@
             (Join(WorkDir, <<"b">>) :> "file b")

\* the files of a directory on a filesystem that does not
FilesFold == (Join(WorkDir, <<"a">>) :> "file a") @@
             (Join(WorkDir, <<"b">>) :> "file b")

CaseTargets == {<<"A">>, <<"a">>, <<"c">>}

\* the filesystem matches names exactly or ignoring case
InitCase ==
    \E fold \in BOOLEAN : InitWith(Linux, fold, IF fold THEN FilesFold ELSE FilesCase)

RunCase ==
    Run(IF ForwardRan THEN {} ELSE Batches(WorkDir, SourceNames, CaseTargets, MaxChanges),
        Flags)

NextCase ==
    \/ RunCase
    \/ RunUndo
    \/ DetectStep
    \/ DetectOverwriting
    \/ ApplyDetected
    \/ RenameStep
    \/ CommitStep

SpecCase == InitCase /\ [][NextCase]_vars

\* ------------------------------------------------------------------------
\* Specification with two working directories
\* ------------------------------------------------------------------------

\* the directory x of /w and a sibling of /w whose name has "_" where the
\* path of the former has a separator
DirInW    == <<"/", "w", "/", "x">>
DirBesideW == <<"/", "w", "_", "x">>

WorkDirs == {DirInW, DirBesideW}

\* each of the two directories holds files a and b of its own
FilesDirs ==
    [q \in {Join(d, n) : d \in WorkDirs, n \in SourceNames} |-> <<"file">> \o q]

DirsTargets == {<<"c">>, <<"e">>}

\* the program is started in one of the directories
InitDirs ==
    /\ goos = Linux
    /\ foldFS = FALSE
    /\ fs = FilesDirs
    /\ dirs = {WorkDir} \cup WorkDirs
    /\ backups = <<>>
    /\ workingDir \in WorkDirs
    /\ matches = <<>>
    /\ conflicts = NoConflicts
    /\ errors = <<>>
    /\ exec = FALSE
    /\ fixConflicts = FALSE
    /\ allowOverwrites = FALSE
    /\ revert = FALSE
    /\ includeDir = FALSE
    /\ pc = "idle"
    /\ i = 1
    /\ renamedPaths = <<>>
    /\ result = ""
    /\ runs = 0
    /\ hist = <<>>
    /\ fsLog = <<>>
    /\ gens = <<>>

\* between two invocations the user moves to the other directory: the next
\* newOperation takes it as its working directory
ChangeDir ==
    /\ pc = "done"
    /\ runs < MaxRuns
    /\ workingDir' \in WorkDirs \ {workingDir}
    /\ pc' = "idle"
    /\ UNCHANGED <<goos, foldFS, diskVars, flagVars, matches, conflicts, errors, i,
                   renamedPaths, result, runs, hist, fsLog, gens>>

\* a forward run over a batch of the files of the working directory
RunDirs == Run(Batches(workingDir, SourceNames, DirsTargets, 1), Flags)

NextDirs ==
    \/ RunDirs
    \/ RunUndo
    \/ ChangeDir
    \/ DetectStep
    \/ DetectOverwriting
    \/ ApplyDetected
    \/ RenameStep
    \/ CommitStep

SpecDirs == InitDirs /\ [][NextDirs]_vars

\* ------------------------------------------------------------------------
\* Specification with two contested target paths
\* ------------------------------------------------------------------------

OrderSources == <<<<"p">>, <<"q">>, <<"r">>, <<"s">>>>

FilesOrder == [q \in {Join(WorkDir, OrderSources[k]) : k \in 1..Len(OrderSources)}
                 |-> <<"file">> \o Base(q)]

OrderTargets == {<<"x">>, <<"x">> \o Paren(2)}

\* the batches that rename every file of OrderSources, in that order
OrderBatches ==
    {[k \in 1..Len(OrderSources) |-> Change(WorkDir, OrderSources[k], tgts[k])]
        : tgts \in [1..Len(OrderSources) -> OrderTargets]}

OrderFlags == [exec : BOOLEAN, fixConflicts : BOOLEAN, allowOverwrites : {FALSE}]

InitOrder == InitWith(Linux, FALSE, FilesOrder)

RunOrder == Run(IF ForwardRan THEN {} ELSE OrderBatches, OrderFlags)

UndoOrder == Undo(OrderFlags)

NextOrder ==
    \/ RunOrder
    \/ UndoOrder
    \/ DetectStep
    \/ DetectOverwriting
    \/ ApplyDetected
    \/ RenameStep
    \/ CommitStep

SpecOrder == InitOrder /\ [][NextOrder]_vars

\* The program run over several forward batches of one directory
TwoTargets == {<<"a">>, <<"d">>}

RunTwo == Run(Batches(WorkDir, SourceNames, TwoTargets, MaxChanges), Flags)

NextTwo ==
    \/ RunTwo
    \/ RunUndo
    \/ DetectStep
    \/ DetectOverwriting
    \/ ApplyDetected
    \/ RenameStep
    \/ CommitStep

SpecTwo == Init /\ [][NextTwo]_vars

\* The program run again, without auto-fix, over the list that a dry run
\* with auto-fix produced
RunAgain ==
    /\ runs = 1 /\ pc = "done"
    /\ ~revert /\ ~exec /\ fixConflicts /\ result = errNil
    /\ Run({matches}, {[exec |-> FALSE, fixConflicts |-> FALSE,
                        allowOverwrites |-> allowOverwrites]})

NextFix ==
    \/ RunBatch
    \/ RunAgain
    \/ RunUndo
    \/ DetectStep
    \/ DetectOverwriting
    \/ ApplyDetected
    \/ RenameStep
    \/ CommitStep

SpecFix == Init /\ [][NextFix]_vars

\* The program run over batches of three changes that may share a target
TieSources == <<<<"a">>, <<"b">>, <<"c">>>>

TieTargets == {<<>>, <<".">>, <<"a">>, <<"x">>}

\* the batches that rename every file of TieSources, in that order
TieBatches ==
    {[k \in 1..Len(TieSources) |-> Change(WorkDir, TieSources[k], tgts[k])]
        : tgts \in [1..Len(TieSources) -> TieTargets]}

RunTie == Run(IF ForwardRan THEN {} ELSE TieBatches, Flags)

NextTie ==
    \/ RunTie
    \/ RunUndo
    \/ DetectStep
    \/ DetectOverwriting
    \/ ApplyDetected
    \/ RenameStep
    \/ CommitStep

SpecTie == Init /\ [][NextTie]_vars

\* ------------------------------------------------------------------------
\* Properties
\* ------------------------------------------------------------------------

\* the conflict map has an entry
SomeConflict == \E t \in ConflictType : conflicts[t] # <<>>

\* C1 (abort-before-mutate): while the conflict map has an entry and auto-fix
\* is off, the invocation, forward or undo, makes no mkdir and no rename,
\* leaves the files, the directories and the backup records as they were
\* when it started, never reaches rename(), and returns the
\* conflict-detected error.
C1_AbortBeforeMutate ==
    (runs > 0 /\ SomeConflict /\ ~fixConflicts) =>
        /\ pc # "rename"
        /\ fsLog = <<>>
        /\ fs = hist[runs].fs
        /\ dirs = hist[runs].dirs
        /\ backups = hist[runs].backups
        /\ pc = "done" => result = errConflictDetected

\* an undo of an executed batch aborted on a conflict (forward runs abort on
\* conflicts on the way to such a state as well)
C1_Witness ==
    /\ pc = "done"
    /\ revert
    /\ exec
    /\ ~fixConflicts
    /\ conflicts[fileExists] # <<>>
    /\ result = errConflictDetected
    /\ hist[1].exec /\ hist[1].result = errNil

\* C2 (round-trip): after a forward batch that was executed without
\* allow-overwrites and returned nil, an undo with exec on in which no
\* rename failed leaves every file at the path it had before the batch.
C2_RoundTrip ==
    (/\ runs = 2 /\ pc = "done"
     /\ ~hist[1].revert /\ hist[1].exec /\ ~hist[1].allowOverwrites
     /\ hist[1].result = errNil
     /\ revert /\ exec /\ errors = <<>>) =>
        fs = hist[1].fs

\* C3 (uniqueness post-fix): after detectConflicts with auto-fix on, no two
\* changes with distinct source paths have the same target path.
C3_UniquePostFix ==
    (pc = "detected" /\ fixConflicts /\ ~revert) =>
        \A j, k \in 1..Len(matches) :
            SourcePath(matches[j]) # SourcePath(matches[k]) =>
                TargetPath(matches[j]) # TargetPath(matches[k])

\* C4 (detection terminates): an invocation that is in the loop of
\* detectConflicts leaves it.
C4_DetectionTerminates == (pc = "detect") ~> (pc # "detect")

\* the targets checkOverwritingPathConflict leaves when it visits the
\* contested target paths in the given order
TargetsAfter(order) ==
    LET r == checkOverwritingPathConflict(
                 [matches |-> matches, conflicts |-> conflicts,
                  gens |-> <<>>, panic |-> FALSE], renamedPaths, order)
    IN  [k \in 1..Len(matches) |-> r.st.matches[k].Target]

\* C5 (auto-fix is deterministic): when the loop of detectConflicts is over
\* and auto-fix is on, checkOverwritingPathConflict leaves every change the
\* same target whatever the order in which it visits the contested target
\* paths.
C5_Deterministic ==
    (pc = "detect" /\ i > Len(matches) /\ fixConflicts) =>
        \A o1, o2 \in Orders(Contested(renamedPaths)) :
            TargetsAfter(o1) = TargetsAfter(o2)

\* C6 (generator non-collision): during detection every call of newTarget
\* returns a path that does not exist on the filesystem and that was not
\* claimed in renamedPaths by a change of the batch when the call was made.
C6_GeneratorNonCollision ==
    pc \in {"detect", "detected"} =>
        \A k \in 1..Len(gens) :
            /\ ~Stat(gens[k].path)
            /\ gens[k].path \notin gens[k].claimed

\* the fileExists conflicts that name source path sp and target path tp
FileExistsEntries(sp, tp) ==
    {k \in 1..Len(conflicts[fileExists]) :
        /\ conflicts[fileExists][k].Sources = <<sp>>
        /\ conflicts[fileExists][k].Target = tp}

\* change n of op.matches has a target path that exists, differs from its
\* source path ignoring case and is not the source path of an earlier change
\* that changes its name
TargetTaken(n) ==
    /\ Stat(TargetPath(matches[n]))
    /\ ~EqualFold(SourcePath(matches[n]), TargetPath(matches[n]))
    /\ ~\E j \in 1..(n - 1) :
            /\ SourcePath(matches[j]) = TargetPath(matches[n])
            /\ ~EqualFold(SourcePath(matches[j]), TargetPath(matches[j]))

\* no rename of a batch with a fileExists conflict is performed when
\* auto-fix is off
NoRenameOnFileExists ==
    (runs > 0 /\ ~fixConflicts /\ conflicts[fileExists] # <<>>) =>
        pc # "rename" /\ fsLog = <<>>

\* C8 as the specification states it: with auto-fix and allow-overwrites
\* off, every change whose target is taken adds exactly one fileExists
\* conflict that names it and has status path-exists after detection, and
\* no rename is performed.
C8_AsStated ==
    /\ NoRenameOnFileExists
    /\ (pc = "detected" /\ ~fixConflicts /\ ~allowOverwrites) =>
          \A n \in 1..Len(matches) :
              TargetTaken(n) =>
                  /\ Cardinality(FileExistsEntries(SourcePath(matches[n]),
                                                   TargetPath(matches[n]))) = 1
                  /\ matches[n].status = statusPathExists

\* C8 (path-exists conflict), amended: the change has a target other than ""
\* and ".", and its status after detection is path-exists unless another
\* change of the batch has the same target path, when it is
\* overwriting-new-path.
C8_PathExists ==
    /\ NoRenameOnFileExists
    /\ (pc = "detected" /\ ~fixConflicts /\ ~allowOverwrites) =>
          \A n \in 1..Len(matches) :
              (TargetTaken(n) /\ matches[n].Target \notin {<<>>, <<".">>}) =>
                  /\ Cardinality(FileExistsEntries(SourcePath(matches[n]),
                                                   TargetPath(matches[n]))) = 1
                  /\ matches[n].status =
                        IF \E m \in 1..Len(matches) :
                               m # n /\ TargetPath(matches[m]) = TargetPath(matches[n])
                        THEN statusOverwritingNewPath
                        ELSE statusPathExists

\* detection reported the second change of a batch, whose target is taken
C8_Witness ==
    /\ pc = "detected" /\ ~fixConflicts /\ ~allowOverwrites
    /\ Len(matches) = 2
    /\ TargetTaken(2) /\ matches[2].Target = <<"c">>
    /\ matches[2].status = statusPathExists
    /\ Len(conflicts[fileExists]) = 1

\* C9 (idempotence of unchanged): for a change that entered the invocation
\* with its source path equal to its target path, detection records no
\* conflict that names its source path and commit makes no filesystem call.
C9_UnchangedIdempotent ==
    (runs > 0 /\ pc \in {"detected", "rename", "done"}) =>
        \A n \in 1..Len(hist[runs].input) :
            SourcePath(hist[runs].input[n]) = TargetPath(hist[runs].input[n]) =>
                /\ \A t \in ConflictType : \A k \in 1..Len(conflicts[t]) :
                       \A q \in 1..Len(conflicts[t][k].Sources) :
                           conflicts[t][k].Sources[q] # SourcePath(hist[runs].input[n])
                /\ \A k \in 1..Len(fsLog) : fsLog[k].index # n

\* the calls of the invocation that failed
FailedCalls == {k \in 1..Len(fsLog) : ~fsLog[k].ok}

\* the forward batch was executed and exactly one of its calls failed, that
\* of change n: no other change failed, the failure list is n alone and the
\* backup record of the working directory holds all changes
OneFailureIsolated(n) ==
    /\ errors = <<n>>
    /\ \A m \in 1..Len(matches) :
           m # n =>
               \/ SourcePath(matches[m]) = TargetPath(matches[m])
               \/ \E k \in 1..Len(fsLog) :
                      fsLog[k].index = m /\ fsLog[k].call = "rename" /\ fsLog[k].ok
    /\ BackupFileName(workingDir) \in DOMAIN backups
    /\ backups[BackupFileName(workingDir)].working_dir = workingDir
    /\ backups[BackupFileName(workingDir)].operations =
           [k \in 1..Len(matches) |-> ToJSON(matches[k])]

Input == hist[runs].input

\* the changes that proposed the target name of change n in its directory
Group(n) ==
    {m \in 1..Len(Input) :
        Input[m].BaseDir = Input[n].BaseDir /\ Input[m].Target = Input[n].Target}

\* the target paths of the changes outside the group of change n
OthersClaims(n) == {TargetPath(matches[m]) : m \in (1..Len(matches)) \ Group(n)}

\* the name 'T (N)'
Numbered(T, N) == T \o <<" ", "(">> \o Itoa(N) \o <<")">>

\* the numbers N >= 2 for which 'T (N)', T the target change n proposed,
\* neither exists nor is the target of a change outside the group
FreeNumbers(n) ==
    {N \in 2..(Len(Input) + Cardinality(DOMAIN fs) + 2) :
        /\ ~Stat(Join(Input[n].BaseDir, Numbered(Input[n].Target, N)))
        /\ Join(Input[n].BaseDir, Numbered(Input[n].Target, N)) \notin OthersClaims(n)}

\* the r-th smallest member of a set of numbers
NthSmallest(S, r) == CHOOSE x \in S : Cardinality({y \in S : y <= x}) = r

\* the target the renumbering rule gives change n: 'T (N)' with N the free
\* number whose rank is the rank of n in its group
Renumbered(n) ==
    Numbered(Input[n].Target,
             NthSmallest(FreeNumbers(n), Cardinality({m \in Group(n) : m <= n})))

RenumberingApplies(n) ==
    /\ Input[n].Target \notin {<<>>, <<".">>}
    /\ Stat(TargetPath(Input[n]))
    /\ \A m \in Group(n) :
           /\ ~EqualFold(SourcePath(Input[m]), TargetPath(Input[m]))
           /\ ~\E j \in 1..(m - 1) :
                   /\ SourcePath(Input[j]) = TargetPath(Input[n])
                   /\ ~EqualFold(SourcePath(Input[j]), TargetPath(Input[j]))

UndoRecord == hist[runs].backups[BackupFileName(workingDir)]

\* operation k of the backup record is a change whose rename succeeded
RenamedInRecord(k) ==
    /\ UndoRecord.operations[k].error = ""
    /\ Join(UndoRecord.operations[k].base_dir, UndoRecord.operations[k].source)
         # Join(UndoRecord.operations[k].base_dir, UndoRecord.operations[k].target)

\* an executed undo that followed an executed forward batch without
\* allow-overwrites in which some but not all renames failed, and in which
\* no call failed for a change whose forward rename had succeeded
UndoOfPartialFailure ==
    /\ runs = 2 /\ pc = "done"
    /\ ~hist[1].revert /\ hist[1].exec /\ ~hist[1].allowOverwrites
    /\ hist[1].result = errSomeNotRenamed
    /\ revert /\ exec
    /\ BackupFileName(workingDir) \in DOMAIN hist[2].backups
    /\ \A k \in FailedCalls : ~RenamedInRecord(fsLog[k].index)

\* C11 (a partial failure stays revertible): after such an undo every file
\* that the forward batch renamed is back at its original path.
C11_PartialRevertible ==
    UndoOfPartialFailure =>
        \A k \in 1..Len(UndoRecord.operations) :
            RenamedInRecord(k) =>
                LET p == Join(UndoRecord.operations[k].base_dir,
                              UndoRecord.operations[k].source)
                IN  p \in DOMAIN fs /\ fs[p] = hist[1].fs[p]

\* the backup record of the working directory is the list commit() worked on
RecordIsCommitted ==
    /\ BackupFileName(workingDir) \in DOMAIN backups
    /\ backups[BackupFileName(workingDir)] = BackupRecord(workingDir, matches)

\* an executed revert in which no rename failed wrote no backup record: the
\* records are those it started with, less the one it removed
RevertWroteNothing ==
    (pc = "done" /\ revert /\ exec /\ errors = <<>>) =>
        \A f \in DOMAIN backups :
            f \in DOMAIN hist[runs].backups /\ backups[f] = hist[runs].backups[f]

\* C12 as the specification states it: after every executed forward commit
\* without a rename failure the backup record of the working directory is
\* the committed list, and an executed revert writes none.
C12_AsStated ==
    /\ RevertWroteNothing
    /\ (pc = "done" /\ ~revert /\ exec /\ errors = <<>> /\ Len(matches) > 0
        /\ result \in {errNil, errBackupFailed}) => RecordIsCommitted

\* C12 (backup write), amended: the commit returned nil, that is, the write
\* of the backup file succeeded.
C12_BackupWrite ==
    /\ RevertWroteNothing
    /\ (pc = "done" /\ ~revert /\ exec /\ errors = <<>> /\ Len(matches) > 0
        /\ result = errNil) => RecordIsCommitted

\* the second of two executed forward batches replaced the record of the
\* first
C12_Witness ==
    /\ runs = 2 /\ pc = "done" /\ ~revert /\ exec /\ result = errNil
    /\ ~hist[1].revert /\ hist[1].exec /\ hist[1].result = errNil
    /\ Len(hist[1].input) > 0
    /\ BackupFileName(workingDir) \in DOMAIN hist[2].backups
    /\ hist[2].backups[BackupFileName(workingDir)] # backups[BackupFileName(workingDir)]
    /\ RecordIsCommitted

\* the invocation is an undo whose apply() returned no error
UndoApplied == revert /\ pc = "done" /\ result = errNil

\* C13 (backup delete): a backup record that the invocation found is missing
\* only after an undo that ran with exec on and whose apply() returned no
\* error; an undo that is a dry run, that aborted on conflicts or in which a
\* rename failed leaves the backup records as it found them; and an undo
\* with exec on whose apply() ran without conflict abort and without rename
\* failure returns nil whether or not the record could be removed.
C13_BackupDelete ==
    /\ runs > 0 =>
          \A f \in DOMAIN hist[runs].backups :
              f \notin DOMAIN backups => (UndoApplied /\ exec)
    /\ (runs > 0 /\ revert /\ pc = "done" /\ ~(exec /\ result = errNil)) =>
          backups = hist[runs].backups
    /\ (runs > 0 /\ revert /\ pc = "done" /\ matches # <<>> /\ errors = <<>>
        /\ ~ConflictsRemain) => result = errNil

\* an executed undo restored the files and removed the record
C13_Witness ==
    /\ UndoApplied /\ exec /\ matches # <<>>
    /\ BackupFileName(workingDir) \in DOMAIN hist[runs].backups
    /\ BackupFileName(workingDir) \notin DOMAIN backups
    /\ fs = hist[1].fs

\* the renames of the invocation that succeeded
SucceededRenames == {k \in 1..Len(fsLog) : fsLog[k].call = "rename" /\ fsLog[k].ok}

\* C14 (total failure writes no backup): after an executed forward commit in
\* which a rename failed and none succeeded, the backup records are those
\* the invocation found.
C14_TotalFailureNoBackup ==
    (/\ runs > 0 /\ pc = "done" /\ ~revert /\ exec
     /\ errors # <<>>
     /\ SucceededRenames = {}) =>
        backups = hist[runs].backups

\* C15 (total and partial failure differ by result): when the rename of
\* every change of an executed batch failed, commit() returns the fatal
\* error, and when only some failed it returns the summary error of the
\* direction.
C15_FatalOnTotalFailure ==
    (runs > 0 /\ pc = "done" /\ exec /\ errors # <<>>) =>
        IF Len(errors) = Len(matches)
        THEN result = errRenamingFailed
        ELSE result \in {errSomeNotRenamed, errSomeNotReverted, errAboveNotRenamed}

\* C16 (dry run changes nothing on disk): an invocation with exec off, forward
\* or undo, makes no mkdir and no rename and leaves the files, the
\* directories and the backup records as it found them.
C16_DryRun ==
    (runs > 0 /\ ~exec) =>
        /\ pc # "rename"
        /\ fsLog = <<>>
        /\ fs = hist[runs].fs
        /\ dirs = hist[runs].dirs
        /\ backups = hist[runs].backups

\* a dry run of an undo ended after auto-fix rewrote a target in memory
C16_Witness ==
    /\ pc = "done" /\ ~exec /\ revert /\ fixConflicts
    /\ result = errNil
    /\ \E k \in 1..Len(matches) : matches[k].Target # hist[runs].input[k].Target
    /\ BackupFileName(workingDir) \in DOMAIN backups

\* C17 (auto-fix reaches a fixed point): detectConflicts without auto-fix, on
\* the list that detectConflicts with auto-fix produced, with the same
\* filesystem and the same allow-overwrites, reports no conflict.
C17_FixedPoint ==
    (/\ runs = 2 /\ pc = "detected"
     /\ ~revert /\ ~fixConflicts
     /\ ~hist[1].revert /\ hist[1].fixConflicts /\ ~hist[1].exec) =>
        conflicts = NoConflicts

\* change n of a forward batch was accepted by the path-exists check only
\* because an earlier change that changes its name has its source at n's
\* target path: the path held a file when detection ran, allow-overwrites
\* is off and n did not keep its own name
AcceptedAsVacated(n) ==
    /\ ~revert /\ ~allowOverwrites
    /\ matches[n].Target = Input[n].Target
    /\ \E q \in DOMAIN hist[runs].fs : FsKey(q) = FsKey(TargetPath(matches[n]))
    /\ ~EqualFold(SourcePath(matches[n]), TargetPath(matches[n]))
    /\ \E j \in 1..(n - 1) :
           /\ SourcePath(matches[j]) = TargetPath(matches[n])
           /\ ~EqualFold(SourcePath(matches[j]), TargetPath(matches[j]))

\* C18 (the vacated-path rule is honoured at commit): when commit renames a
\* change that detection accepted as vacated, the earlier change at its
\* target path has been handled before it and the target path is free.
C18_VacatedHonoured ==
    (runs > 0 /\ pc \in {"rename", "done"}) =>
        \A k \in 1..Len(fsLog) :
            (fsLog[k].call = "rename" /\ AcceptedAsVacated(fsLog[k].index)) =>
                /\ ~fsLog[k].existed
                /\ \E j \in 1..(fsLog[k].index - 1) :
                       /\ SourcePath(matches[j]) = fsLog[k].target
                       /\ \E m \in 1..(k - 1) : fsLog[m].index = j

\* ------------------------------------------------------------------------
\* C19: the tie-break among the changes that share a target path
\* ------------------------------------------------------------------------

\* the number at the end of a numbered target, 0 when it has none
TargetNumber(target) ==
    LET fileNoExt == FilenameWithoutExtension(Base(target))
        at        == NumberSuffixAt(fileNoExt)
    IN  IF at > 0 THEN Atoi(SubSeq(fileNoExt, at + 1, Len(fileNoExt) - 1)) ELSE 0

\* the changes entered in renamedPaths under path p
Registered(p) ==
    IF p \in DOMAIN renamedPaths
    THEN {renamedPaths[p][k].index : k \in 1..Len(renamedPaths[p])}
    ELSE {}

\* the change at index n had an empty target when detectConflicts came to it
HadEmptyTarget(n) == Input[n].Target \in {<<>>, <<".">>}

\* the changes whose target resolved to path p when the loop of
\* detectConflicts was done with them, those with an empty target included
ResolvedTo(p) ==
    Registered(p) \cup {n \in 1..Len(matches) :
                           HadEmptyTarget(n) /\ Join(Input[n].BaseDir, Input[n].Target) = p}

\* the tie-break among the changes idxs, all of target path p: the first keeps
\* the target, the later ones have numbered targets whose numbers grow with
\* the index, and each was generated with the earlier ones already claimed
TieBroken(p, idxs) ==
    LET first == CHOOSE n \in idxs : \A m \in idxs : n <= m
        later == idxs \ {first}
    IN  /\ TargetPath(matches[first]) = p
        /\ \A n \in later :
               /\ TargetNumber(matches[n].Target) > 0
               /\ TargetPath(matches[n]) # p
               /\ TargetPath(matches[n]) \in DOMAIN renamedPaths
               /\ \E g \in 1..Len(gens) :
                      gens[g].index = n /\ gens[g].path = TargetPath(matches[n])
        /\ \A n, m \in later :
               n < m => TargetNumber(matches[n].Target) < TargetNumber(matches[m].Target)
        /\ \A g, h \in 1..Len(gens) :
               (g < h /\ gens[g].index \in later /\ gens[h].index \in later) =>
                   /\ gens[g].index < gens[h].index
                   /\ gens[g].path \in gens[h].claimed

\* the paths some change of the batch resolved to
ResolvedPaths ==
    DOMAIN renamedPaths \cup
        {Join(Input[n].BaseDir, Input[n].Target) : n \in {m \in 1..Len(matches) : HadEmptyTarget(m)}}

\* C19 as stated: with auto-fix, whenever several changes resolve to the same
\* target path, the lowest-indexed of them keeps its target and every later
\* one gets a new numbered target, the numbers growing with the list index,
\* each new target entered in the collision map before the next is handled.
C19_AsStated ==
    (runs > 0 /\ pc = "detected" /\ fixConflicts) =>
        \A p \in ResolvedPaths :
            Cardinality(ResolvedTo(p)) > 1 => TieBroken(p, ResolvedTo(p))

\* C19 amended: the same, for the changes whose target is neither empty nor
\* "." when detectConflicts comes to them, which are the ones entered in the
\* collision map.
C19_TieBreak ==
    (runs > 0 /\ pc = "detected" /\ fixConflicts) =>
        \A p \in DOMAIN renamedPaths :
            Cardinality(Registered(p)) > 1 => TieBroken(p, Registered(p))

\* three changes share a target path and two of them were renumbered
C19_Witness ==
    /\ runs > 0 /\ pc = "detected" /\ fixConflicts
    /\ \E p \in DOMAIN renamedPaths : Cardinality(Registered(p)) = 3
    /\ Len(gens) = 2
    /\ TargetNumber(matches[2].Target) = 2
    /\ TargetNumber(matches[3].Target) = 3

\* ------------------------------------------------------------------------
\* C20: the report of the changes that share a target path
\* ------------------------------------------------------------------------

\* the source paths of the changes idxs, in the order of the list
OrderedSources(idxs) ==
    LET o == CHOOSE f \in [1..Cardinality(idxs) -> idxs] :
                 \A a, b \in 1..Cardinality(idxs) : a < b => f[a] < f[b]
    IN  [k \in 1..Cardinality(idxs) |-> SourcePath(matches[o[k]])]

\* the overwritingNewPath conflicts recorded for target path p
OverwritingAt(p) ==
    {k \in 1..Len(conflicts[overwritingNewPath]) :
        conflicts[overwritingNewPath][k].Target = p}

\* one overwritingNewPath conflict names path p, with the sources of the
\* changes idxs in list order, and each of these changes has the status
ReportedOnce(p, idxs) ==
    /\ Cardinality(OverwritingAt(p)) = 1
    /\ \A k \in OverwritingAt(p) :
           conflicts[overwritingNewPath][k].Sources = OrderedSources(idxs)
    /\ \A n \in idxs : matches[n].status = statusOverwritingNewPath

\* C20 as stated: without auto-fix, every target path that two or more
\* changes resolve to has exactly one overwritingNewPath conflict, whose
\* sources are the source paths of all of them in list order, and all of them
\* have the status overwriting-new-path; a path that one change resolves to
\* has no such conflict.
C20_AsStated ==
    (runs > 0 /\ pc = "detected" /\ ~fixConflicts) =>
        \A p \in ResolvedPaths :
            IF Cardinality(ResolvedTo(p)) > 1
            THEN ReportedOnce(p, ResolvedTo(p))
            ELSE OverwritingAt(p) = {}

\* C20 amended: the same, for the changes whose target is neither empty nor
\* "."; and no overwritingNewPath conflict names any other path.
C20_Reporting ==
    (runs > 0 /\ pc = "detected" /\ ~fixConflicts) =>
        /\ \A p \in DOMAIN renamedPaths :
               IF Cardinality(Registered(p)) > 1
               THEN ReportedOnce(p, Registered(p))
               ELSE OverwritingAt(p) = {}
        /\ \A k \in 1..Len(conflicts[overwritingNewPath]) :
               conflicts[overwritingNewPath][k].Target \in DOMAIN renamedPaths

\* a batch without auto-fix in which two changes share one target path and
\* a third has a path of its own
C20_Witness ==
    /\ runs > 0 /\ pc = "detected" /\ ~fixConflicts
    /\ \E p, q \in DOMAIN renamedPaths :
           /\ Cardinality(Registered(p)) = 2
           /\ Cardinality(Registered(q)) = 1
    /\ Len(conflicts[overwritingNewPath]) = 1

\* ------------------------------------------------------------------------
\* C21: failures never abort the batch
\* ------------------------------------------------------------------------

\* rename() has gone through the whole list
RenameLoopDone == runs > 0 /\ pc = "rename" /\ i > Len(matches)

\* the positions of fsLog at which the attempt for a change ended: its rename
\* call, or its mkdir call when that failed
Attempts ==
    {k \in 1..Len(fsLog) : fsLog[k].call = "rename" \/ ~fsLog[k].ok}

\* every change that rename() does not skip was attempted once, in list order
AttemptedOnceInOrder ==
    /\ \A n \in 1..Len(matches) :
           Cardinality({k \in Attempts : fsLog[k].index = n})
               = (IF SourcePath(matches[n]) # TargetPath(matches[n]) THEN 1 ELSE 0)
    /\ \A k, m \in Attempts : k < m => fsLog[k].index < fsLog[m].index

\* the failure list holds the indices of the failed attempts, ascending
FailureListExact ==
    /\ {errors[k] : k \in 1..Len(errors)} = {fsLog[k].index : k \in {m \in Attempts : ~fsLog[m].ok}}
    /\ \A k, m \in 1..Len(errors) : k < m => errors[k] < errors[m]

\* a change has error text exactly when its index is in the failure list
ErrorTextIffFailed ==
    \A n \in 1..Len(matches) :
        (matches[n].Error # "") <=> (\E k \in 1..Len(errors) : errors[k] = n)

\* C21: rename() attempts every change whose source and target paths differ
\* once, in list order, whatever failed before; afterwards the failure list
\* holds exactly the indices of the failed attempts, ascending and without
\* duplicates, and a change has error text if and only if it is in the list.
C21_FailuresRecorded ==
    RenameLoopDone => (AttemptedOnceInOrder /\ FailureListExact /\ ErrorTextIffFailed)

\* the part of C21 that does hold: the attempts and the failure list
C21_AttemptsAndList ==
    RenameLoopDone => (AttemptedOnceInOrder /\ FailureListExact)

\* ------------------------------------------------------------------------
\* C22: allow-overwrites
\* ------------------------------------------------------------------------

\* detection is over for a forward run with allow-overwrites on
DetectedAllowing == runs > 0 /\ pc = "detected" /\ ~revert /\ allowOverwrites

\* no fileExists conflict is recorded
NoFileExistsConflict == conflicts[fileExists] = <<>>

\* every change whose proposed target path exists and is not its source path,
\* ignoring case, is marked willOverwrite, and has the status overwriting
\* unless the later check of the shared target paths gave it another
ExistingTargetsMarked ==
    \A n \in 1..Len(matches) :
        (/\ Input[n].Target \notin {<<>>, <<".">>}
         /\ Stat(TargetPath(Input[n]))
         /\ ~EqualFold(SourcePath(Input[n]), TargetPath(Input[n]))) =>
            /\ matches[n].WillOverwrite
            /\ Cardinality(Registered(TargetPath(Input[n]))) = 1 =>
                   matches[n].status = statusOverwriting

\* a change marked willOverwrite whose rename succeeded replaced an entry that
\* existed when it was renamed
MarkedOnlyWhenDestroying ==
    \A k \in 1..Len(fsLog) :
        (/\ fsLog[k].call = "rename"
         /\ fsLog[k].ok
         /\ matches[fsLog[k].index].WillOverwrite) => fsLog[k].existed

\* C22: with allow-overwrites on, detectConflicts records no fileExists
\* conflict, every change whose target path exists and differs from its
\* source path ignoring case gets status overwriting and willOverwrite, and
\* willOverwrite is true only for a change whose commit destroys an existing
\* entry: not when the target does not exist or was vacated by an earlier
\* change before this one is renamed.
C22_AllowOverwrites ==
    /\ DetectedAllowing => (NoFileExistsConflict /\ ExistingTargetsMarked)
    /\ (runs > 0 /\ ~revert /\ allowOverwrites /\ pc \in {"rename", "done"}) =>
           MarkedOnlyWhenDestroying

\* ------------------------------------------------------------------------
\* C23: the changes with an empty target
\* ------------------------------------------------------------------------

\* the emptyFilename conflicts recorded for the change at index n
EmptyFilenameConflicts(n) ==
    {k \in 1..Len(conflicts[emptyFilename]) :
        conflicts[emptyFilename][k].Sources = <<SourcePath(matches[n])>>}

\* the change at index n was entered in renamedPaths, which happens only to a
\* change that went through all the checks
WentThroughChecks(n) == \E p \in DOMAIN renamedPaths : n \in Registered(p)

\* the forward run is past detectConflicts
PastDetection == runs > 0 /\ ~revert /\ pc \in {"detected", "rename", "done"}

\* C23: with auto-fix on, every change whose proposed target is empty or "."
\* ends detection with target equal to its source and status unchanged, is not
\* rechecked, is not renamed at commit, and its emptyFilename conflict stays
\* recorded; with auto-fix off it keeps its target, has status empty-filename
\* and apply() returns the conflict-detected error without renaming.
C23_EmptyFilename ==
    PastDetection =>
        \A n \in 1..Len(matches) :
            HadEmptyTarget(n) =>
                /\ Cardinality(EmptyFilenameConflicts(n)) = 1
                /\ ~WentThroughChecks(n)
                /\ \A k \in 1..Len(fsLog) : fsLog[k].index # n
                /\ IF fixConflicts
                   THEN /\ matches[n].Target = matches[n].Source
                        /\ matches[n].status = statusUnchanged
                        /\ pc = "done" => result # errConflictDetected
                   ELSE /\ matches[n].Target = Input[n].Target
                        /\ matches[n].status = statusEmptyFilename
                        /\ pc # "rename"
                        /\ fsLog = <<>>
                        /\ pc = "done" => result = errConflictDetected

\* an executed batch with auto-fix in which the changes with the targets "."
\* and "" were left alone while the third was renamed
C23_Witness ==
    /\ PastDetection /\ pc = "done" /\ fixConflicts /\ exec
    /\ Len(matches) = 3
    /\ Input[1].Target = <<".">> /\ Input[2].Target = <<>> /\ ~HadEmptyTarget(3)
    /\ matches[1].status = statusUnchanged /\ matches[2].status = statusUnchanged
    /\ Len(fsLog) = 1 /\ fsLog[1].index = 3 /\ fsLog[1].ok
    /\ conflicts[emptyFilename] # <<>>
    /\ result = errNil

\* ------------------------------------------------------------------------
\* C24: the fix of a file name that is too long
\* ------------------------------------------------------------------------

\* a step of detectConflicts in which auto-fix handles a target whose file
\* name is too long: the step that records the conflict
LengthFixStep ==
    /\ pc = "detect" /\ i <= Len(matches)
    /\ fixConflicts /\ goos # Windows
    /\ Len(conflicts'[maxFilenameLengthExceeded]) > Len(conflicts[maxFilenameLengthExceeded])

\* the fix truncated the base name only
BaseNameTruncated(old, new) ==
    /\ Len(Base(new)) <= unixMaxBytes
    /\ Ext(Base(new)) = Ext(Base(old))
    /\ Dir(new) = Dir(old)
    /\ \E k \in 0..Len(FilenameWithoutExtension(Base(old))) :
           FilenameWithoutExtension(Base(new))
               = SubSeq(FilenameWithoutExtension(Base(old)), 1, k)

\* C24: with auto-fix on a platform other than Windows, a target whose file
\* name is longer than 255 bytes is rewritten to a file name of at most 255
\* bytes by truncating the base name only: the extension and the directory
\* part of the target are unchanged, whatever the target.
C24_LengthFix ==
    [][LengthFixStep =>
          /\ result' # "panic"
          /\ BaseNameTruncated(matches[i].Target, matches'[i].Target)]_vars

\* the same for the targets that have no directory part and whose extension
\* leaves room for a base name
C24_PlainTargets ==
    [][(/\ LengthFixStep
        /\ Dir(matches[i].Target) = <<".">>
        /\ Len(Ext(Base(matches[i].Target))) < unixMaxBytes) =>
          /\ result' # "panic"
          /\ BaseNameTruncated(matches[i].Target, matches'[i].Target)]_vars

\* ------------------------------------------------------------------------
\* C25: what detectConflicts changes
\* ------------------------------------------------------------------------

\* a step of detectConflicts: an iteration of its loop or the final call of
\* checkOverwritingPathConflict
DetectionStep == pc = "detect"

\* the step keeps the number and the order of the changes
SameChanges == Len(matches') = Len(matches)

\* C25 as stated: a step of detectConflicts, with or without auto-fix, changes
\* only the target and the status of changes; every other field is as before
\* and no change is added, removed or moved.
C25_AsStated ==
    [][DetectionStep =>
          /\ SameChanges
          /\ \A n \in 1..Len(matches) :
                 [matches'[n] EXCEPT !.Target = matches[n].Target,
                                     !.status = matches[n].status] = matches[n]]_vars

\* C25 amended: the same with willOverwrite among the fields that may change.
C25_Frame ==
    [][DetectionStep =>
          /\ SameChanges
          /\ \A n \in 1..Len(matches) :
                 [matches'[n] EXCEPT !.Target = matches[n].Target,
                                     !.status = matches[n].status,
                                     !.WillOverwrite = matches[n].WillOverwrite]
                     = matches[n]]_vars

\* detection is over and has changed the target of one change and marked
\* another as overwriting
C25_Witness ==
    /\ runs > 0 /\ ~revert /\ pc = "detected"
    /\ \E n, m \in 1..Len(matches) :
           /\ matches[n].Target # Input[n].Target
           /\ matches[n].Source = Input[n].Source
           /\ matches[m].WillOverwrite /\ ~Input[m].WillOverwrite
           /\ matches[m].status = statusOverwriting

\* ------------------------------------------------------------------------
\* C26: fixed conflicts stay reported
\* ------------------------------------------------------------------------

\* detectConflicts gave the change at index n another target
TargetFixed(n) == matches[n].Target # Input[n].Target

\* the conflict map has an entry that names the change at index n
ConflictNames(n) ==
    \E t \in ConflictType : \E k \in 1..Len(conflicts[t]) :
        \E m \in 1..Len(conflicts[t][k].Sources) :
            conflicts[t][k].Sources[m] = SourcePath(matches[n])

\* C26: with auto-fix on, apply() never returns the conflict-detected error
\* and always goes on to the dry run or to the commit, so it does not end
\* inside detectConflicts, and the conflict map still has an entry for each
\* conflict that was fixed: it is not empty when a target was fixed.
C26_FixedStayReported ==
    (runs > 0 /\ fixConflicts /\ pc \in {"detected", "rename", "done"}) =>
        /\ result \notin {errConflictDetected, "panic"}
        /\ (pc = "done" /\ ~exec /\ ~revert) => result = errNil
        /\ (pc = "done" /\ exec /\ Len(matches) > 0
                /\ result \notin {errBackupNotFound, errUnmarshal}) =>
               \A n \in 1..Len(matches) :
                   SourcePath(matches[n]) # TargetPath(matches[n]) =>
                       \E k \in 1..Len(fsLog) : fsLog[k].index = n
        /\ \A n \in 1..Len(matches) :
               TargetFixed(n) => (ConflictNames(n) /\ LenConflicts(conflicts) > 0)

\* ------------------------------------------------------------------------
\* C27: no silent overwrite
\* ------------------------------------------------------------------------

\* the rename recorded at position k of fsLog replaced an entry other than
\* the one it renamed
ReplacedAnEntry(k) ==
    /\ fsLog[k].call = "rename"
    /\ fsLog[k].ok
    /\ fsLog[k].existed
    /\ FsKey(fsLog[k].source) # FsKey(fsLog[k].target)

\* C27: with allow-overwrites off no rename that commit performs replaces an
\* existing filesystem entry: when a change of a batch that passed detection
\* is renamed, its target path does not exist, whatever the outcome of the
\* earlier renames of the batch.
C27_NoSilentOverwrite ==
    (runs > 0 /\ ~allowOverwrites) =>
        \A k \in 1..Len(fsLog) : ~ReplacedAnEntry(k)

\* ------------------------------------------------------------------------
\* C28: status unchanged means not renamed
\* ------------------------------------------------------------------------

\* C28: a change that ends detection with status unchanged is skipped by
\* rename(): commit makes no filesystem call for it.
C28_UnchangedNotRenamed ==
    (runs > 0 /\ pc \in {"rename", "done"}) =>
        \A n \in 1..Len(matches) :
            matches[n].status = statusUnchanged =>
                \A k \in 1..Len(fsLog) : fsLog[k].index # n

\* ------------------------------------------------------------------------
\* C29: the statuses after auto-fix
\* ------------------------------------------------------------------------

\* the statuses that stand for a conflict
ConflictStatuses ==
    {statusEmptyFilename, statusTrailingPeriod, statusPathExists,
     statusOverwritingNewPath, statusInvalidCharacters, statusFilenameLengthExceeded}

\* C29: after detectConflicts with auto-fix on, no change has a status that
\* stands for a conflict, the first contributor of a shared target path
\* included.
C29_NoConflictStatus ==
    (runs > 0 /\ fixConflicts /\ pc = "detected") =>
        \A n \in 1..Len(matches) : matches[n].status \notin ConflictStatuses

\* the same for every change but the first contributors of shared target paths
C29_ButFirstContributors ==
    (runs > 0 /\ fixConflicts /\ pc = "detected") =>
        \A n \in 1..Len(matches) :
            matches[n].status \in ConflictStatuses =>
                /\ matches[n].status = statusOverwritingNewPath
                /\ \E p \in Contested(renamedPaths) : renamedPaths[p][1].index = n

\* ------------------------------------------------------------------------
\* C30: backup records are private to their working directory
\* ------------------------------------------------------------------------

\* the backup records the current invocation found that belong to another
\* working directory
ForeignRecords ==
    {f \in DOMAIN hist[runs].backups :
        /\ hist[runs].backups[f].valid
        /\ hist[runs].backups[f].working_dir # workingDir}

\* the backup file names of the working directories are pairwise different
BackupNamesDiffer ==
    \A d1, d2 \in WorkDirs : d1 # d2 => BackupFileName(d1) # BackupFileName(d2)

\* C30: the backup file name derived from the working directory is private to
\* it, so an invocation in one working directory leaves the record of another
\* as it found it (neither overwritten nor deleted), and an undo reads only a
\* record of its own working directory.
C30_BackupsPrivate ==
    (runs > 0 /\ pc = "done") =>
        /\ \A f \in ForeignRecords :
               f \in DOMAIN backups /\ backups[f] = hist[runs].backups[f]
        /\ (revert /\ result \notin {errBackupNotFound, errUnmarshal}) =>
               BackupFileName(workingDir) \notin ForeignRecords

====
